---- MODULE Spec2Model ----
(***************************************************************************)
(* Model of the iOS 26 call-screening detection function                   *)
(* (functions/ios26_CallScreeningDetection_Transcriptions.js).             *)
(*                                                                         *)
(* Texts are TLA+ strings handled character by character; time is in       *)
(* milliseconds, as Date.now() gives it.                                   *)
(***************************************************************************)
EXTENDS Integers, Sequences, FiniteSets, TLC

(***************************************************************************)
(* String helpers (JavaScript String methods used by the source)           *)
(***************************************************************************)

\* String.prototype.includes
Includes(text, pattern) ==
    \E i \in 1..(Len(text) - Len(pattern) + 1) :
        SubSeq(text, i, i + Len(pattern) - 1) = pattern

UpperToLower ==
    [c \in {"A","B","C","D","E","F","G","H","I","J","K","L","M","N","O","P",
            "Q","R","S","T","U","V","W","X","Y","Z"} |->
       CASE c = "A" -> "a" [] c = "B" -> "b" [] c = "C" -> "c" [] c = "D" -> "d"
         [] c = "E" -> "e" [] c = "F" -> "f" [] c = "G" -> "g" [] c = "H" -> "h"
         [] c = "I" -> "i" [] c = "J" -> "j" [] c = "K" -> "k" [] c = "L" -> "l"
         [] c = "M" -> "m" [] c = "N" -> "n" [] c = "O" -> "o" [] c = "P" -> "p"
         [] c = "Q" -> "q" [] c = "R" -> "r" [] c = "S" -> "s" [] c = "T" -> "t"
         [] c = "U" -> "u" [] c = "V" -> "v" [] c = "W" -> "w" [] c = "X" -> "x"
         [] c = "Y" -> "y" [] c = "Z" -> "z"]

RECURSIVE ToLowerCase(_)
\* String.prototype.toLowerCase, character by character
ToLowerCase(text) ==
    IF Len(text) = 0 THEN ""
    ELSE IF Len(text) = 1
      THEN IF text \in DOMAIN UpperToLower THEN UpperToLower[text] ELSE text
    ELSE LET half == Len(text) \div 2
         IN  ToLowerCase(SubSeq(text, 1, half))
                 \o ToLowerCase(SubSeq(text, half + 1, Len(text)))

IsSpace(text, i) == SubSeq(text, i, i) = " "

\* String.prototype.trim
Trim(text) ==
    LET nonSpace == {i \in 1..Len(text) : ~IsSpace(text, i)}
    IN  IF nonSpace = {} THEN ""
        ELSE LET first == CHOOSE i \in nonSpace : \A j \in nonSpace : i <= j
                 last  == CHOOSE i \in nonSpace : \A j \in nonSpace : j <= i
             IN  SubSeq(text, first, last)

\* text.split(/\s+/).length : one more than the number of whitespace runs
SplitLength(text) ==
    1 + Cardinality({i \in 1..Len(text) :
                        IsSpace(text, i) /\ (i = 1 \/ ~IsSpace(text, i - 1))})

\* String.prototype.slice(-n)
SliceLast(text, n) ==
    IF Len(text) > n THEN SubSeq(text, Len(text) - n + 1, Len(text)) ELSE text

(***************************************************************************)
(* Pattern detection                                                       *)
(***************************************************************************)

ios26Patterns ==
    { "record your name and reason for calling",
      "if you record your name",
      "name and reason for calling",
      "see if this person is available",
      "i'll see if this person",
      "record your name",
      "reason for calling",
      "reason for your call",
      "state your name",
      "say your name",
      "this person is available",
      "see if this person",
      "checking if this person" }

detectIOS26Patterns(text) ==
    IF Len(text) = 0 THEN FALSE
    ELSE LET lowerText == ToLowerCase(text)
         IN  \E pattern \in ios26Patterns : Includes(lowerText, pattern)

intermediatePatterns ==
    { "thanks", "thank you", "please stay on the line", "stay on the line",
      "please hold", "one moment" }

MaxPromptWords == 10

detectIntermediatePrompts(text) ==
    IF Len(text) = 0 THEN FALSE
    ELSE LET lowerText == ToLowerCase(text)
         IN  IF SplitLength(lowerText) > MaxPromptWords THEN FALSE
             ELSE \E pattern \in intermediatePatterns : Includes(lowerText, pattern)

voicemailPatterns ==
    { "leave a message",
      "leave an additional message",
      "after the tone",
      "after the beep",
      "not available",
      "unable to take your call",
      "voicemail",
      "please leave",
      "at the sound of the beep",
      "can't come to the phone",
      "cannot come to the phone",
      "can't take your call",
      "cannot take your call",
      "please call back",
      "call back later",
      "try again later",
      "leave your name and number",
      "record your message",
      "recording",
      "mailbox",
      "call has been forwarded",
      "forwarded to voicemail",
      "forwarded to an automatic voice message",
      "person you are trying to reach",
      "person you're trying to reach",
      "person you are calling",
      "subscriber you are calling",
      "subscriber you have called",
      "is unavailable",
      "is not available" }

detectVoicemailPatterns(text) ==
    IF Len(text) = 0 THEN FALSE
    ELSE LET lowerText == ToLowerCase(text)
         IN  \E pattern \in voicemailPatterns : Includes(lowerText, pattern)

voicemailGreetingPatterns ==
    { "can't come to the phone",
      "cannot come to the phone",
      "can't take your call",
      "cannot take your call",
      "not available right now",
      "not available to take",
      "unable to answer",
      "away from my phone",
      "please leave a message",
      "you've reached",
      "you have reached",
      "this is the voicemail",
      "at the tone" }

humanPatterns ==
    { "who is this", "who are you", "what do you want", "hold on", "wait",
      "speaking", "this is" }

\* detectHumanSpeech as it would be without the exclusion of the
\* intermediate prompts
detectHumanSpeech_KeepsPrompts(text) ==
    IF Len(text) = 0 THEN FALSE
    ELSE LET lowerText == ToLowerCase(text)
             hasHumanPattern ==
                 \E pattern \in humanPatterns : Includes(lowerText, pattern)
             hasQuestionMark == Includes(text, "?")
             hasInteractiveQuestion ==
                 hasQuestionMark /\ (Includes(lowerText, "who")
                                       \/ Includes(lowerText, "what")
                                       \/ Includes(lowerText, "why"))
         IN  IF detectIOS26Patterns(text) \/ detectVoicemailPatterns(text)
               THEN FALSE
             ELSE IF \E pattern \in voicemailGreetingPatterns :
                        Includes(lowerText, pattern)
               THEN FALSE
             ELSE hasHumanPattern \/ hasInteractiveQuestion

detectHumanSpeech(text) ==
    IF Len(text) = 0 THEN FALSE
    ELSE LET lowerText == ToLowerCase(text)
             hasHumanPattern ==
                 \E pattern \in humanPatterns : Includes(lowerText, pattern)
             hasQuestionMark == Includes(text, "?")
             hasInteractiveQuestion ==
                 hasQuestionMark /\ (Includes(lowerText, "who")
                                       \/ Includes(lowerText, "what")
                                       \/ Includes(lowerText, "why"))
         IN  IF detectIOS26Patterns(text) \/ detectVoicemailPatterns(text)
               THEN FALSE
             ELSE IF detectIntermediatePrompts(text) THEN FALSE
             ELSE IF \E pattern \in voicemailGreetingPatterns :
                        Includes(lowerText, pattern)
               THEN FALSE
             ELSE hasHumanPattern \/ hasInteractiveQuestion

(***************************************************************************)
(* Bounds and inputs                                                       *)
(***************************************************************************)

\* webhooks delivered in one behaviour
MaxEvents == 3

CallSids == {"CA1"}

\* a second call the same process handles at the same time
OtherCallSids == {"CA2"}
AllCallSids == CallSids \cup OtherCallSids

\* instants (ms) at which the clock is observed; the first is the start
TimePoints == {1000, 9000, 23000}

CallStatuses == {"in-progress", "completed", "busy"}

AnsweredByValues == {"machine_start", "human"}

Texts == { "record your name",
           "leave a message",
           "who is this",
           "hello?",
           "Thanks" }

\* a transcript longer than half the window
LongGreeting ==
    "Hi, you have reached the voicemail of John Smith. I am not available to take your call right now. Please leave your name, number and a short message after the tone."

\* the TranscriptionData payload Twilio sends for a transcript
TranscriptionDataOf(text) == "{\"transcript\":\"" \o text \o "\"}"

\* JSON.parse(transcriptionData) followed by parsedData.transcript, for
\* payloads of the shape {"transcript":"..."}; anything else throws
JSONParse(data) ==
    LET prefix == "{\"transcript\":\""
        suffix == "\"}"
        n == Len(data)
    IN  IF /\ n >= Len(prefix) + Len(suffix)
           /\ SubSeq(data, 1, Len(prefix)) = prefix
           /\ SubSeq(data, n - Len(suffix) + 1, n) = suffix
          THEN [ok |-> TRUE,
                transcript |-> SubSeq(data, Len(prefix) + 1, n - Len(suffix))]
          ELSE [ok |-> FALSE, transcript |-> ""]

\* a TranscriptionData payload cut short in transit: JSON.parse throws
MalformedData == "{\"transcript\":\"record your na"

(***************************************************************************)
(* State                                                                   *)
(***************************************************************************)

VARIABLES
    callStates,         \* Map callSid -> state
    callTranscripts,    \* Map callSid -> accumulated transcript
    callStartTimes,     \* Map callSid -> Date.now() at initialization
    amdResults,         \* Map callSid -> AnsweredBy
    processedActions,   \* Map callSid -> Set of action tags
    now,                \* Date.now()
    liveCall,           \* the call on the telephony platform: its dateUpdated
    inFlight,           \* handler invocations suspended at an await
    invoked,            \* history: action functions called, in order
    lastEvent,          \* history: the webhook handled last and its response
    delivered,          \* history: number of webhooks handled
    ended,              \* history: calls whose terminal status was handled
    epoch,              \* history: cleanupCallState runs per call
    responses           \* history: callback calls made for each webhook

sessionVars == <<callStates, callTranscripts, callStartTimes, amdResults,
                 processedActions>>

vars == <<callStates, callTranscripts, callStartTimes, amdResults,
          processedActions, now, liveCall, inFlight, invoked, lastEvent,
          delivered, ended, epoch, responses>>

\* Map.prototype.set / Map.prototype.delete
MapSet(m, k, v) == [x \in DOMAIN m \cup {k} |-> IF x = k THEN v ELSE m[x]]
MapDelete(m, k) == [x \in DOMAIN m \ {k} |-> m[x]]

EmptyMap == [x \in {} |-> ""]

(***************************************************************************)
(* State management                                                        *)
(***************************************************************************)

initializeCallState_states(states, callSid) == MapSet(states, callSid, "INITIAL")
initializeCallState_startTimes(starts, callSid, t) == MapSet(starts, callSid, t)
initializeCallState_transcripts(trans, callSid) == MapSet(trans, callSid, "")

getCallState(states, callSid) ==
    IF callSid \in DOMAIN states THEN states[callSid] ELSE "UNKNOWN"

setCallState(states, callSid, newState) == MapSet(states, callSid, newState)

\* setAMDResult as it would be if the first result received were kept
setAMDResult_KeepsFirst(amds, callSid, result) ==
    IF callSid \in DOMAIN amds THEN amds ELSE MapSet(amds, callSid, result)

setAMDResult(amds, callSid, result) == MapSet(amds, callSid, result)

\* undefined is written "none"
getAMDResult(amds, callSid) ==
    IF callSid \in DOMAIN amds THEN amds[callSid] ELSE "none"

\* in milliseconds: the source divides by 1000 and compares with seconds
getCallElapsedTime(starts, callSid, t) ==
    IF callSid \notin DOMAIN starts THEN 0 ELSE t - starts[callSid]

hasProcessedAction(actions, callSid, action) ==
    LET set == IF callSid \in DOMAIN actions THEN actions[callSid] ELSE {}
    IN  action \in set

\* the marking as it would be if the tag were not recorded
markActionProcessed_Forgets(actions, callSid, action) ==
    MapSet(actions, callSid,
           IF callSid \in DOMAIN actions THEN actions[callSid] ELSE {})

markActionProcessed(actions, callSid, action) ==
    MapSet(actions, callSid,
           (IF callSid \in DOMAIN actions THEN actions[callSid] ELSE {})
               \cup {action})

\* the accumulation as it would be if the cap kept the oldest characters
Accumulate_KeepsOldest(trans, callSid, transcript) ==
    LET accumulated ==
            (IF callSid \in DOMAIN trans THEN trans[callSid] ELSE "")
                \o " " \o Trim(transcript)
    IN  IF Len(accumulated) > 300 THEN SubSeq(accumulated, 1, 300)
        ELSE accumulated

\* accumulated transcript, sliding window of the last 300 characters
Accumulate(trans, callSid, transcript) ==
    LET accumulated ==
            (IF callSid \in DOMAIN trans THEN trans[callSid] ELSE "")
                \o " " \o Trim(transcript)
    IN  IF Len(accumulated) > 300 THEN SliceLast(accumulated, 300)
        ELSE accumulated

(***************************************************************************)
(* Scenario detection: the branch processTranscriptionWithScenarios takes  *)
(* up to its first await.  currentState, elapsedTime (ms) and amdResult    *)
(* are read on entry, stateNow is the state re-read inside scenario 1,     *)
(* actions is the processedActions map.                                    *)
(***************************************************************************)

\* the early human branch as it would be if its window included its ends
Scenario3Triggers_ClosedWindow(currentState, elapsedTime, amdResult, transcript, accumulated) ==
    /\ currentState = "INITIAL" /\ elapsedTime >= 5000 /\ elapsedTime <= 35000
    /\ LET isEarlyHuman == detectHumanSpeech(transcript) \/ detectHumanSpeech(accumulated)
           noIOS26 == ~detectIOS26Patterns(transcript) /\ ~detectIOS26Patterns(accumulated)
           amdSaysHuman == amdResult = "human"
       IN  (isEarlyHuman \/ amdSaysHuman) /\ noIOS26

Scenario3Triggers(currentState, elapsedTime, amdResult, transcript, accumulated) ==
    /\ currentState = "INITIAL" /\ elapsedTime > 5000 /\ elapsedTime < 35000
    /\ LET isEarlyHuman == detectHumanSpeech(transcript) \/ detectHumanSpeech(accumulated)
           noIOS26 == ~detectIOS26Patterns(transcript) /\ ~detectIOS26Patterns(accumulated)
           amdSaysHuman == amdResult = "human"
       IN  (isEarlyHuman \/ amdSaysHuman) /\ noIOS26

\* the timing fallback as it would be if it did not look at the machine
\* signal
Scenario3FallbackTriggers_IgnoresMachineSignal(currentState, elapsedTime, amdResult, accumulated, actions, callSid) ==
    /\ currentState = "INITIAL" /\ elapsedTime > 20000 /\ elapsedTime < 25000
    /\ ~detectIOS26Patterns(accumulated)
    /\ ~hasProcessedAction(actions, callSid, "human_passthrough_fallback")

Scenario3FallbackTriggers(currentState, elapsedTime, amdResult, accumulated, actions, callSid) ==
    /\ currentState = "INITIAL" /\ elapsedTime > 20000 /\ elapsedTime < 25000
    /\ LET noIOS26InAccumulated == ~detectIOS26Patterns(accumulated)
           amdNotMachine == amdResult # "machine_start" /\ amdResult # "machine_end_beep"
       IN  /\ noIOS26InAccumulated /\ amdNotMachine
           /\ ~hasProcessedAction(actions, callSid, "human_passthrough_fallback")

\* scenario 4 as it would be without the check that no preamble was heard
Scenario4Triggers_NoPreambleCheck(currentState, elapsedTime, amdResult, transcript, accumulated) ==
    /\ currentState = "INITIAL" /\ elapsedTime < 30000
    /\ LET isVoicemail == detectVoicemailPatterns(transcript) \/ detectVoicemailPatterns(accumulated)
           amdSaysMachine == amdResult = "machine_start" \/ amdResult = "machine_end_beep"
       IN  isVoicemail \/ amdSaysMachine

Scenario4Triggers(currentState, elapsedTime, amdResult, transcript, accumulated) ==
    /\ currentState = "INITIAL" /\ elapsedTime < 30000
    /\ LET isVoicemail == detectVoicemailPatterns(transcript) \/ detectVoicemailPatterns(accumulated)
           noIOS26 == ~detectIOS26Patterns(transcript) /\ ~detectIOS26Patterns(accumulated)
           amdSaysMachine == amdResult = "machine_start" \/ amdResult = "machine_end_beep"
       IN  (isVoicemail \/ amdSaysMachine) /\ noIOS26

Scenario1Branch(elapsedTime, transcript, accumulated, stateNow) ==
    LET isIOS26 == detectIOS26Patterns(transcript) \/ detectIOS26Patterns(accumulated)
        isIntermediatePrompt == detectIntermediatePrompts(transcript)
    IN  IF isIOS26
          THEN IF stateNow = "IOS26_MONITORING" THEN "skip" ELSE "scenario1"
        ELSE IF isIntermediatePrompt /\ elapsedTime < 12000
          THEN IF stateNow = "IOS26_MONITORING" THEN "skip"
               ELSE "scenario1_inferred"
        ELSE "none"

\* scenario 2 as it would be if it looked for a voicemail greeting and for
\* human speech before it filtered the intermediate prompts
Scenario2Branch_FiltersLast(transcript, accumulated, actions, callSid) ==
    LET isIntermediatePrompt == detectIntermediatePrompts(transcript)
        isVoicemail == detectVoicemailPatterns(transcript) \/ detectVoicemailPatterns(accumulated)
        isHuman == detectHumanSpeech(transcript) \/ detectHumanSpeech(accumulated)
    IN  IF isVoicemail
          THEN IF hasProcessedAction(actions, callSid, "voicemail_after_ios26")
                 THEN "skip" ELSE "scenario1_voicemail"
        ELSE IF isHuman
          THEN IF hasProcessedAction(actions, callSid, "human_after_ios26")
                 THEN "skip" ELSE "scenario2"
        ELSE IF isIntermediatePrompt THEN "none"
        ELSE "none"

Scenario2Branch(transcript, accumulated, actions, callSid) ==
    LET isIntermediatePrompt == detectIntermediatePrompts(transcript)
        isVoicemail == detectVoicemailPatterns(transcript) \/ detectVoicemailPatterns(accumulated)
        isHuman == detectHumanSpeech(transcript) \/ detectHumanSpeech(accumulated)
    IN  IF isIntermediatePrompt THEN "none"
        ELSE IF isVoicemail
          THEN IF hasProcessedAction(actions, callSid, "voicemail_after_ios26")
                 THEN "skip" ELSE "scenario1_voicemail"
        ELSE IF isHuman
          THEN IF hasProcessedAction(actions, callSid, "human_after_ios26")
                 THEN "skip" ELSE "scenario2"
        ELSE "none"

\* the branches as they would be if the voicemail check of scenario 4
\* looked at the text alone, whatever the state
ScenarioBranch_VoicemailInAnyState(currentState, elapsedTime, amdResult, transcript, accumulated, actions, callSid, stateNow) ==
    IF Scenario3Triggers(currentState, elapsedTime, amdResult, transcript, accumulated)
      THEN IF hasProcessedAction(actions, callSid, "human_passthrough")
             THEN "skip" ELSE "scenario3"
    ELSE IF Scenario3FallbackTriggers(currentState, elapsedTime, amdResult,
                                      accumulated, actions, callSid)
      THEN "scenario3_fallback"
    ELSE IF Scenario4Triggers("INITIAL", elapsedTime, amdResult, transcript, accumulated)
      THEN IF hasProcessedAction(actions, callSid, "voicemail_direct")
             THEN "skip" ELSE "scenario4"
    ELSE IF currentState = "INITIAL"
           /\ Scenario1Branch(elapsedTime, transcript, accumulated, stateNow) # "none"
      THEN Scenario1Branch(elapsedTime, transcript, accumulated, stateNow)
    ELSE IF currentState = "IOS26_MONITORING"
      THEN Scenario2Branch(transcript, accumulated, actions, callSid)
    ELSE "none"

ScenarioBranch(currentState, elapsedTime, amdResult, transcript, accumulated, actions, callSid, stateNow) ==
    IF Scenario3Triggers(currentState, elapsedTime, amdResult, transcript, accumulated)
      THEN IF hasProcessedAction(actions, callSid, "human_passthrough")
             THEN "skip" ELSE "scenario3"
    ELSE IF Scenario3FallbackTriggers(currentState, elapsedTime, amdResult,
                                      accumulated, actions, callSid)
      THEN "scenario3_fallback"
    ELSE IF currentState = "PASSTHROUGH" THEN "none"
    ELSE IF Scenario4Triggers(currentState, elapsedTime, amdResult, transcript, accumulated)
      THEN IF hasProcessedAction(actions, callSid, "voicemail_direct")
             THEN "skip" ELSE "scenario4"
    ELSE IF currentState = "INITIAL"
           /\ Scenario1Branch(elapsedTime, transcript, accumulated, stateNow) # "none"
      THEN Scenario1Branch(elapsedTime, transcript, accumulated, stateNow)
    ELSE IF currentState = "IOS26_MONITORING"
      THEN Scenario2Branch(transcript, accumulated, actions, callSid)
    ELSE "none"

\* the dispatch as it would be if scenario 2 played the identification again
BranchAction_ReplaysIdentify(branch) ==
    CASE branch \in {"scenario3", "scenario3_fallback"} -> "Passthrough"
      [] branch \in {"scenario4", "scenario1_voicemail"} -> "LeaveVoicemail"
      [] branch \in {"scenario1", "scenario1_inferred", "scenario2"} -> "Identify"
      [] OTHER -> "none"

\* the action function each branch calls, and the tag it marks
BranchAction(branch) ==
    CASE branch \in {"scenario3", "scenario3_fallback", "scenario2"} -> "Passthrough"
      [] branch \in {"scenario4", "scenario1_voicemail"} -> "LeaveVoicemail"
      [] branch \in {"scenario1", "scenario1_inferred"} -> "Identify"
      [] OTHER -> "none"

\* the tags as they would be if both voicemail branches shared one tag
BranchTag_SharedVoicemailTag(branch) ==
    CASE branch = "scenario3" -> "human_passthrough"
      [] branch = "scenario3_fallback" -> "human_passthrough_fallback"
      [] branch = "scenario2" -> "human_after_ios26"
      [] branch \in {"scenario4", "scenario1_voicemail"} -> "voicemail_direct"
      [] OTHER -> "none"

BranchTag(branch) ==
    CASE branch = "scenario3" -> "human_passthrough"
      [] branch = "scenario3_fallback" -> "human_passthrough_fallback"
      [] branch = "scenario2" -> "human_after_ios26"
      [] branch = "scenario4" -> "voicemail_direct"
      [] branch = "scenario1_voicemail" -> "voicemail_after_ios26"
      [] OTHER -> "none"

(***************************************************************************)
(* Initial state: no session, the call is live, nothing delivered yet      *)
(***************************************************************************)

StartTime == CHOOSE t \in TimePoints : \A u \in TimePoints : t <= u

\* arg is the CallStatus, the AnsweredBy or the transcript of the webhook
NoEvent == [kind |-> "none", callSid |-> "", arg |-> "", response |-> "none",
            branch |-> "none"]

Init ==
    /\ callStates = EmptyMap
    /\ callTranscripts = EmptyMap
    /\ callStartTimes = EmptyMap
    /\ amdResults = EmptyMap
    /\ processedActions = EmptyMap
    /\ now = StartTime
    /\ liveCall = [c \in AllCallSids |-> [dateUpdated |-> StartTime]]
    /\ inFlight = {}
    /\ invoked = <<>>
    /\ lastEvent = NoEvent
    /\ delivered = 0
    /\ ended = {}
    /\ epoch = [c \in AllCallSids |-> 0]
    /\ responses = <<>>

(***************************************************************************)
(* Time: a webhook arrives at an instant t of TimePoints, not before the    *)
(* previous step; Date.now() reads t while it is handled.  An awaited call *)
(* returns at the current instant; a timer fires when it is due.           *)
(***************************************************************************)

Passes(t) == t >= now /\ now' = t

\* a webhook is delivered at t
Arrives(t) ==
    /\ Passes(t)
    /\ delivered < MaxEvents
    /\ delivered' = delivered + 1

\* a webhook whose handler never reads the clock is delivered: the instant
\* of its arrival shows only in the order of the webhooks
ArrivesNow ==
    /\ delivered < MaxEvents
    /\ delivered' = delivered + 1
    /\ now' = now

\* number of the webhook being handled
EventNumber == delivered + 1

(***************************************************************************)
(* exports.handler, webhooks without an await                              *)
(***************************************************************************)

\* the short-circuit as it would be if only PASSTHROUGH were terminal
IsTerminalState_PassthroughOnly(state) == state = "PASSTHROUGH"

IsTerminalState(state) == state = "PASSTHROUGH" \/ state = "VOICEMAIL_DELIVERED"

IsCleanupStatus(callStatus) ==
    callStatus \in {"completed", "failed", "canceled", "no-answer"}

shouldInitialize(callStatus) ==
    callStatus \in {"initiated", "ringing", "in-progress", "answered"}

\* cleanupCallState
\* the cleanup as it would be if it cleared the maps instead of deleting
\* the entries of the call
cleanupCallState_ClearsMaps(callSid) ==
    /\ callStates' = EmptyMap
    /\ callTranscripts' = EmptyMap
    /\ callStartTimes' = EmptyMap
    /\ amdResults' = EmptyMap
    /\ processedActions' = EmptyMap

cleanupCallState(callSid) ==
    /\ callStates' = MapDelete(callStates, callSid)
    /\ callTranscripts' = MapDelete(callTranscripts, callSid)
    /\ callStartTimes' = MapDelete(callStartTimes, callSid)
    /\ amdResults' = MapDelete(amdResults, callSid)
    /\ processedActions' = MapDelete(processedActions, callSid)

\* a status callback (CallStatus set, no AnsweredBy, no TranscriptionEvent)
StatusCallback(callSid, callStatus, t) ==
    /\ Arrives(t)
    /\ ended' = IF IsCleanupStatus(callStatus) THEN ended \cup {callSid} ELSE ended
    /\ LET state == getCallState(callStates, callSid)
           respond(r) ==
               /\ lastEvent' = [NoEvent EXCEPT !.kind = "lifecycle",
                                   !.callSid = callSid, !.arg = callStatus,
                                   !.response = r]
               /\ responses' = Append(responses, 1)
       IN  IF IsTerminalState(state)
             THEN \* short-circuit for already processed calls
                  /\ respond("empty")
                  /\ UNCHANGED <<sessionVars, epoch>>
           ELSE IF IsCleanupStatus(callStatus)
             THEN /\ cleanupCallState(callSid)
                  /\ epoch' = [epoch EXCEPT ![callSid] = @ + 1]
                  /\ respond("empty")
           ELSE IF shouldInitialize(callStatus)
             THEN IF state # "UNKNOWN" /\ state # "INITIAL"
                    THEN \* duplicate webhook
                         /\ respond("continue")
                         /\ UNCHANGED <<sessionVars, epoch>>
                    ELSE /\ callStates' = initializeCallState_states(callStates, callSid)
                         /\ callStartTimes' =
                                initializeCallState_startTimes(callStartTimes, callSid, t)
                         /\ callTranscripts' =
                                initializeCallState_transcripts(callTranscripts, callSid)
                         /\ respond("start")
                         /\ UNCHANGED <<amdResults, processedActions, epoch>>
           ELSE \* default behaviour: continue monitoring
                /\ respond("continue")
                /\ UNCHANGED <<sessionVars, epoch>>
    /\ UNCHANGED <<liveCall, inFlight, invoked>>

\* the AsyncAmd callback as it would be if a machine result resolved the
\* call as voicemail on the spot
AsyncAmdCallback_ResolvesVoicemail(callSid, amdResult) ==
    /\ ArrivesNow
    /\ lastEvent' = [NoEvent EXCEPT !.kind = "amd", !.callSid = callSid,
                        !.arg = amdResult, !.response = "empty"]
    /\ responses' = Append(responses, 1)
    /\ IF IsTerminalState(getCallState(callStates, callSid))
         THEN UNCHANGED <<amdResults, callStates>>
         ELSE /\ amdResults' = setAMDResult(amdResults, callSid, amdResult)
              /\ callStates' =
                     IF amdResult = "machine_start"
                       THEN setCallState(callStates, callSid, "VOICEMAIL_DELIVERED")
                       ELSE callStates
    /\ UNCHANGED <<callTranscripts, callStartTimes, processedActions,
                   liveCall, inFlight, invoked, ended, epoch>>

\* an AsyncAmd callback (AnsweredBy set)
AsyncAmdCallback(callSid, amdResult) ==
    /\ ArrivesNow
    /\ lastEvent' = [NoEvent EXCEPT !.kind = "amd", !.callSid = callSid,
                        !.arg = amdResult, !.response = "empty"]
    /\ responses' = Append(responses, 1)
    /\ IF IsTerminalState(getCallState(callStates, callSid))
         THEN UNCHANGED amdResults
         ELSE amdResults' = setAMDResult(amdResults, callSid, amdResult)
    /\ UNCHANGED <<callStates, callTranscripts, callStartTimes,
                   processedActions, liveCall, inFlight, invoked, ended, epoch>>

\* TranscriptionEvent = transcription-started
TranscriptionStarted(callSid) ==
    /\ ArrivesNow
    /\ lastEvent' = [NoEvent EXCEPT !.kind = "transcription-started",
                        !.callSid = callSid, !.response = "empty"]
    /\ responses' = Append(responses, 1)
    /\ UNCHANGED <<sessionVars, liveCall, inFlight, invoked, ended, epoch>>

\* TranscriptionEvent = transcription-stopped
TranscriptionStopped(callSid) ==
    /\ ArrivesNow
    /\ lastEvent' = [NoEvent EXCEPT !.kind = "transcription-stopped",
                        !.callSid = callSid, !.response = "empty"]
    /\ responses' = Append(responses, 1)
    /\ callTranscripts' = MapDelete(callTranscripts, callSid)
    /\ UNCHANGED <<callStates, callStartTimes, amdResults, processedActions,
                   liveCall, inFlight, invoked, ended, epoch>>

\* a webhook whose handling throws outside every inner try block, before
\* the session store is touched: the catch of the handler answers with the
\* apology and the hang-up
UnexpectedException(callSid) ==
    /\ ArrivesNow
    /\ lastEvent' = [NoEvent EXCEPT !.kind = "exception", !.callSid = callSid,
                        !.response = "apology"]
    /\ responses' = Append(responses, 1)
    /\ UNCHANGED <<sessionVars, liveCall, inFlight, invoked, ended, epoch>>

(***************************************************************************)
(* exports.handler, TranscriptionEvent = transcription-content: from the   *)
(* entry of the handler to the first await of the action function it calls *)
(* (one turn of the event loop), or to its response when it calls none.    *)
(***************************************************************************)

Invocation(callSid, branch, text, ev) ==
    [callSid |-> callSid, action |-> BranchAction(branch), branch |-> branch,
     text |-> text, ev |-> ev, epoch |-> epoch[callSid],
     result |-> "pending", detected |-> "pending"]

Suspended(callSid, branch, ev, t) ==
    [pc |-> CASE BranchAction(branch) = "Passthrough" -> "passthrough_update"
              [] BranchAction(branch) = "LeaveVoicemail" -> "voicemail_update"
              [] OTHER -> "identify_delay",
     callSid |-> callSid, ev |-> ev, branch |-> branch,
     \* when the setTimeout of playIOS26Response was armed
     t0 |-> IF BranchAction(branch) = "Identify" THEN t ELSE 0]

TranscriptionContent(callSid, transcriptionData, t) ==
    /\ Arrives(t)
    /\ LET ev == EventNumber
           lateInit == callSid \notin DOMAIN callStates
           states0 == IF lateInit
                        THEN initializeCallState_states(callStates, callSid)
                        ELSE callStates
           starts0 == IF lateInit
                        THEN initializeCallState_startTimes(callStartTimes, callSid, t)
                        ELSE callStartTimes
           trans0  == IF lateInit
                        THEN initializeCallState_transcripts(callTranscripts, callSid)
                        ELSE callTranscripts
           parsedData == JSONParse(transcriptionData)
           transcript == parsedData.transcript
           respond(r, text, branch) ==
               /\ lastEvent' = [NoEvent EXCEPT !.kind = "transcript",
                                   !.callSid = callSid, !.arg = text,
                                   !.response = r, !.branch = branch]
               \* the callback is called once the resolver has returned
               /\ responses' = Append(responses, IF r = "pending" THEN 0 ELSE 1)
       IN  IF ~parsedData.ok
             THEN \* parseError
                  /\ callStates' = states0
                  /\ callStartTimes' = starts0
                  /\ callTranscripts' = trans0
                  /\ respond("empty", "", "parse_error")
                  /\ UNCHANGED <<processedActions, inFlight, invoked>>
           ELSE IF Trim(transcript) = ""
             THEN \* empty transcript, skipping processing
                  /\ callStates' = states0
                  /\ callStartTimes' = starts0
                  /\ callTranscripts' = trans0
                  /\ respond("empty", transcript, "empty_transcript")
                  /\ UNCHANGED <<processedActions, inFlight, invoked>>
           ELSE \* processTranscriptionWithScenarios
                LET currentState == getCallState(states0, callSid)
                    elapsedTime == getCallElapsedTime(starts0, callSid, t)
                    amdResult == getAMDResult(amdResults, callSid)
                    accumulated == Accumulate(trans0, callSid, transcript)
                    branch == ScenarioBranch(currentState, elapsedTime, amdResult,
                                             transcript, accumulated,
                                             processedActions, callSid,
                                             getCallState(states0, callSid))
                    action == BranchAction(branch)
                IN  /\ callTranscripts' = MapSet(trans0, callSid, accumulated)
                    /\ callStartTimes' = starts0
                    /\ IF action = "none"
                         THEN \* return null: no detection, empty TwiML
                              /\ callStates' = states0
                              /\ respond("empty", transcript, branch)
                              /\ UNCHANGED <<processedActions, inFlight, invoked>>
                         ELSE /\ callStates' =
                                   IF action = "LeaveVoicemail"
                                     THEN setCallState(states0, callSid, "VOICEMAIL_DELIVERED")
                                   ELSE IF action = "Identify"
                                     THEN setCallState(states0, callSid, "IOS26_MONITORING")
                                   ELSE states0
                              /\ processedActions' =
                                   IF action = "LeaveVoicemail"
                                     THEN markActionProcessed(processedActions, callSid,
                                                              BranchTag(branch))
                                     ELSE processedActions
                              /\ invoked' = Append(invoked,
                                                   Invocation(callSid, branch, transcript, ev))
                              /\ inFlight' = inFlight \cup {Suspended(callSid, branch, ev, t)}
                              /\ respond("pending", transcript, branch)
    /\ UNCHANGED <<amdResults, liveCall, ended, epoch>>

(***************************************************************************)
(* Action functions, from their await on                                   *)
(***************************************************************************)

\* the handler as it would be if the callback of a detection did not end
\* it, so that the closing callback ran as well
Respond_DetectedTwice(resp, ev, detected) ==
    [resp EXCEPT ![ev] = IF detected THEN @ + 2 ELSE @ + 1]

\* the resolver has returned to the handler of webhook ev, which calls the
\* callback: at once for a detection, at the end of its branch otherwise
Respond(resp, ev, detected) ==
    [resp EXCEPT ![ev] = IF detected THEN @ + 1 ELSE @ + 1]

\* the invoked entry of event ev gets its result and the detection result
Returned(ev, result, detected) ==
    [i \in DOMAIN invoked |->
        IF invoked[i].ev = ev
          THEN [invoked[i] EXCEPT !.result = result, !.detected = detected]
          ELSE invoked[i]]

\* client.calls(callSid).update({twiml}) as the platform applies it
CallUpdated(callSid, t) ==
    [liveCall EXCEPT ![callSid] = [@ EXCEPT !.dateUpdated = t]]

\* the return of Passthrough as it would be if the caller marked the tag
\* and left the state as it was
PassthroughReturns_KeepsState(h, ok) ==
    /\ h \in inFlight /\ h.pc = "passthrough_update"
    /\ liveCall' = IF ok THEN CallUpdated(h.callSid, now) ELSE liveCall
    /\ processedActions' =
           markActionProcessed(processedActions, h.callSid, BranchTag(h.branch))
    /\ invoked' = Returned(h.ev, "undefined", "yes")
    /\ responses' = Respond(responses, h.ev, TRUE)
    /\ inFlight' = inFlight \ {h}
    /\ UNCHANGED <<callStates, callTranscripts, callStartTimes, amdResults, now,
                   lastEvent, delivered, ended, epoch>>

\* stopTranscriptionAndPassthrough: the update returns (ok) or throws and
\* is caught; the caller then sets the state and marks the tag
PassthroughReturns(h, ok) ==
    /\ h \in inFlight /\ h.pc = "passthrough_update"
    /\ liveCall' = IF ok THEN CallUpdated(h.callSid, now) ELSE liveCall
    /\ callStates' = setCallState(callStates, h.callSid, "PASSTHROUGH")
    /\ processedActions' =
           markActionProcessed(processedActions, h.callSid, BranchTag(h.branch))
    /\ invoked' = Returned(h.ev, "undefined", "yes")
    /\ responses' = Respond(responses, h.ev, TRUE)
    /\ inFlight' = inFlight \ {h}
    /\ UNCHANGED <<callTranscripts, callStartTimes, amdResults, now, lastEvent,
                   delivered, ended, epoch>>

\* leaveVoicemailMessage: the update returns (ok) or throws and is caught
VoicemailReturns(h, ok) ==
    /\ h \in inFlight /\ h.pc = "voicemail_update"
    /\ liveCall' = IF ok THEN CallUpdated(h.callSid, now) ELSE liveCall
    /\ invoked' = Returned(h.ev, "undefined", "yes")
    /\ responses' = Respond(responses, h.ev, TRUE)
    /\ inFlight' = inFlight \ {h}
    /\ UNCHANGED <<sessionVars, now, lastEvent, delivered, ended, epoch>>

\* what client.calls(callSid).fetch() gives: it throws, or it returns the
\* call with the status the platform holds at that moment
FetchResults == {"error", "in-progress", "completed"}

\* playIOS26Response as it would be if the recheck saw the invocations of
\* the other instances: it gives up when another Identify for the call is
\* pending
IdentifyRecheck_SeesOtherInvocations(h, fetched) ==
    /\ h \in inFlight /\ h.pc = "identify_delay"
    /\ LET t == IF now >= h.t0 + 100 THEN now ELSE h.t0 + 100
           call == liveCall[h.callSid]
           msSinceUpdate == t - call.dateUpdated
           aborted ==
               \/ /\ fetched # "error"
                  /\ \/ fetched \in {"completed", "busy", "failed", "canceled"}
                     \/ msSinceUpdate < 2000
               \/ \E g \in inFlight \ {h} :
                      /\ g.callSid = h.callSid
                      /\ g.pc \in {"identify_delay", "identify_update"}
       IN  /\ now' = t
           /\ IF aborted
                THEN /\ invoked' = Returned(h.ev, "ABORTED", "no")
                     /\ responses' = Respond(responses, h.ev, FALSE)
                     /\ inFlight' = inFlight \ {h}
                ELSE /\ inFlight' =
                            (inFlight \ {h}) \cup {[h EXCEPT !.pc = "identify_update"]}
                     /\ UNCHANGED <<invoked, responses>>
    /\ UNCHANGED <<sessionVars, liveCall, lastEvent, delivered, ended, epoch>>

\* playIOS26Response as it would be if the recheck looked at the status of
\* the call only, not at the time of its last update
IdentifyRecheck_IgnoresTimestamp(h, fetched) ==
    /\ h \in inFlight /\ h.pc = "identify_delay"
    /\ LET t == IF now >= h.t0 + 100 THEN now ELSE h.t0 + 100
           aborted == fetched \in {"completed", "busy", "failed", "canceled"}
       IN  /\ now' = t
           /\ IF aborted
                THEN /\ invoked' = Returned(h.ev, "ABORTED", "no")
                     /\ responses' = Respond(responses, h.ev, FALSE)
                     /\ inFlight' = inFlight \ {h}
                ELSE /\ inFlight' =
                            (inFlight \ {h}) \cup {[h EXCEPT !.pc = "identify_update"]}
                     /\ UNCHANGED <<invoked, responses>>
    /\ UNCHANGED <<sessionVars, liveCall, lastEvent, delivered, ended, epoch>>

\* playIOS26Response as it would be if the session went back to INITIAL
\* when the recheck gives up
IdentifyRecheck_RollsBack(h, fetched) ==
    /\ h \in inFlight /\ h.pc = "identify_delay"
    /\ LET t == IF now >= h.t0 + 100 THEN now ELSE h.t0 + 100
           call == liveCall[h.callSid]
           msSinceUpdate == t - call.dateUpdated
           aborted ==
               /\ fetched # "error"
               /\ \/ fetched \in {"completed", "busy", "failed", "canceled"}
                  \/ msSinceUpdate < 2000
       IN  /\ now' = t
           /\ IF aborted
                THEN /\ invoked' = Returned(h.ev, "ABORTED", "no")
                     /\ responses' = Respond(responses, h.ev, FALSE)
                     /\ inFlight' = inFlight \ {h}
                     /\ callStates' =
                            IF getCallState(callStates, h.callSid) = "IOS26_MONITORING"
                              THEN setCallState(callStates, h.callSid, "INITIAL")
                              ELSE callStates
                ELSE /\ inFlight' =
                            (inFlight \ {h}) \cup {[h EXCEPT !.pc = "identify_update"]}
                     /\ UNCHANGED <<invoked, callStates, responses>>
    /\ UNCHANGED <<callTranscripts, callStartTimes, amdResults, processedActions,
                   liveCall, lastEvent, delivered, ended, epoch>>

\* playIOS26Response: the timer set at t0 fires once 100 ms have passed;
\* then the call is fetched and rechecked
IdentifyRecheck(h, fetched) ==
    /\ h \in inFlight /\ h.pc = "identify_delay"
    /\ LET t == IF now >= h.t0 + 100 THEN now ELSE h.t0 + 100
           call == liveCall[h.callSid]
           msSinceUpdate == t - call.dateUpdated
           aborted ==
               /\ fetched # "error"
               /\ \/ fetched \in {"completed", "busy", "failed", "canceled"}
                  \/ msSinceUpdate < 2000
       IN  /\ now' = t
           /\ IF aborted
                THEN /\ invoked' = Returned(h.ev, "ABORTED", "no")
                     /\ responses' = Respond(responses, h.ev, FALSE)
                     /\ inFlight' = inFlight \ {h}
                ELSE /\ inFlight' =
                            (inFlight \ {h}) \cup {[h EXCEPT !.pc = "identify_update"]}
                     /\ UNCHANGED <<invoked, responses>>
    /\ UNCHANGED <<sessionVars, liveCall, lastEvent, delivered, ended, epoch>>

\* playIOS26Response: the update returns, fails on a concurrent
\* modification (ABORTED) or fails otherwise (logged, returns undefined)
IdentifyUpdateReturns(h, outcome) ==
    /\ h \in inFlight /\ h.pc = "identify_update"
    /\ outcome \in {"SUCCESS", "ABORTED", "undefined"}
    /\ liveCall' = IF outcome = "SUCCESS" THEN CallUpdated(h.callSid, now)
                   ELSE liveCall
    /\ invoked' = Returned(h.ev, outcome, IF outcome = "ABORTED" THEN "no" ELSE "yes")
    /\ responses' = Respond(responses, h.ev, outcome # "ABORTED")
    /\ inFlight' = inFlight \ {h}
    /\ UNCHANGED <<sessionVars, now, lastEvent, delivered, ended, epoch>>

\* a webhook arrives, its transcript among texts, at an instant among times
Webhook(texts, times) ==
    \/ \E c \in CallSids, st \in CallStatuses, t \in times :
           StatusCallback(c, st, t)
    \/ \E c \in CallSids, a \in AnsweredByValues : AsyncAmdCallback(c, a)
    \/ \E c \in CallSids : TranscriptionStarted(c)
    \/ \E c \in CallSids : TranscriptionStopped(c)
    \/ \E c \in CallSids, text \in texts, t \in times :
           TranscriptionContent(c, TranscriptionDataOf(text), t)

\* a suspended handler invocation resumes
Resumes ==
    \/ \E h \in inFlight, ok \in BOOLEAN : PassthroughReturns(h, ok)
    \/ \E h \in inFlight, ok \in BOOLEAN : VoicemailReturns(h, ok)
    \/ \E h \in inFlight, f \in FetchResults : IdentifyRecheck(h, f)
    \/ \E h \in inFlight, o \in {"SUCCESS", "ABORTED", "undefined"} :
           IdentifyUpdateReturns(h, o)

Next == Webhook(Texts, TimePoints) \/ Resumes

Spec == Init /\ [][Next]_vars

\* The resolution of a monitored call: preamble, voicemail greeting, human
\* speech and intermediate prompt, early in the call.
MonitoringTexts == Texts \ {"hello?"}
EarlyTimePoints == {t \in TimePoints : t < 20000}

NextMonitoring == Webhook(MonitoringTexts, EarlyTimePoints) \/ Resumes

SpecMonitoring == Init /\ [][NextMonitoring]_vars

\* The detection of the preamble: texts with a preamble, a voicemail greeting
\* and human speech, at every elapsed time.
PreambleTexts == Texts \ {"hello?", "Thanks"}

NextPreamble == Webhook(PreambleTexts, TimePoints) \/ Resumes

SpecPreamble == Init /\ [][NextPreamble]_vars

\* Payloads: the texts of the preamble specification and, beside them, a
\* payload that is not JSON.
MalformedTranscription(times) ==
    \E c \in CallSids, t \in times : TranscriptionContent(c, MalformedData, t)

NextPayload ==
    Webhook(PreambleTexts, EarlyTimePoints) \/ MalformedTranscription(EarlyTimePoints)
        \/ Resumes

SpecPayload == Init /\ [][NextPayload]_vars

\* The window: a transcript long enough for two of them to pass the cap,
\* beside a preamble and human speech, all as the call is answered.
WindowTexts == {LongGreeting, "record your name", "who is this"}
WindowTimes == {StartTime}

NextWindow == Webhook(WindowTexts, WindowTimes) \/ Resumes

SpecWindow == Init /\ [][NextWindow]_vars

\* The responses: every kind of webhook, a payload that is not JSON and a
\* handler that throws, as the call is answered; an awaited request that was
\* sent returns, and the handler waiting for it resumes.
NextResponses ==
    \/ Webhook(PreambleTexts, WindowTimes)
    \/ MalformedTranscription(WindowTimes)
    \/ \E c \in CallSids : UnexpectedException(c)
    \/ Resumes

SpecResponses == Init /\ [][NextResponses]_vars /\ WF_vars(Resumes)

\* Two instances of the function: the module-level maps belong to one
\* process, so a webhook the platform routes to a freshly started instance
\* is handled over empty maps.  The session variables are the maps of the
\* first instance and are left alone; the fresh instance initialises the call
\* late, at elapsed time 0, where no branch calls Passthrough, and the
\* action function it calls resumes without reading any map.
FreshInstanceTranscription(callSid, transcriptionData, t) ==
    /\ Arrives(t)
    /\ LET ev == EventNumber
           states0 == initializeCallState_states(EmptyMap, callSid)
           starts0 == initializeCallState_startTimes(EmptyMap, callSid, t)
           trans0  == initializeCallState_transcripts(EmptyMap, callSid)
           parsedData == JSONParse(transcriptionData)
           transcript == parsedData.transcript
           currentState == getCallState(states0, callSid)
           elapsedTime == getCallElapsedTime(starts0, callSid, t)
           amdResult == getAMDResult(EmptyMap, callSid)
           accumulated == Accumulate(trans0, callSid, transcript)
           branch == IF parsedData.ok /\ Trim(transcript) # ""
                       THEN ScenarioBranch(currentState, elapsedTime, amdResult,
                                           transcript, accumulated, EmptyMap,
                                           callSid, getCallState(states0, callSid))
                       ELSE "none"
           action == BranchAction(branch)
       IN  /\ lastEvent' = [NoEvent EXCEPT !.kind = "transcript",
                               !.callSid = callSid, !.arg = transcript,
                               !.response = IF action = "none" THEN "empty"
                                            ELSE "pending",
                               !.branch = branch]
           /\ responses' = Append(responses, IF action = "none" THEN 1 ELSE 0)
           /\ IF action = "none"
                THEN UNCHANGED <<inFlight, invoked>>
                ELSE /\ invoked' = Append(invoked,
                                          Invocation(callSid, branch, transcript, ev))
                     /\ inFlight' = inFlight \cup {Suspended(callSid, branch, ev, t)}
    /\ UNCHANGED <<sessionVars, liveCall, ended, epoch>>

\* the webhooks arrive early in the call, once the creation of the call is
\* no longer a recent update; the fresh instance gets the preamble
InstanceTimes == {t \in EarlyTimePoints : t - StartTime >= 2000}

NextInstances ==
    \/ Webhook(PreambleTexts, InstanceTimes)
    \/ \E c \in CallSids, t \in InstanceTimes :
           FreshInstanceTranscription(c, TranscriptionDataOf("record your name"), t)
    \/ Resumes

SpecInstances == Init /\ [][NextInstances]_vars

\* A monitored call that stays silent for long: the texts of the preamble
\* specification and a text no pattern matches, as the call is answered and
\* 28 s later.
LateTexts == PreambleTexts \cup {"hello?"}
LateTimePoints == {StartTime, StartTime + 28000}

NextLate == Webhook(LateTexts, LateTimePoints) \/ Resumes

SpecLate == Init /\ [][NextLate]_vars

\* The ends of the early human window: the texts of the preamble
\* specification as the call is answered, 5 s later and 35 s later.
EdgeTimePoints == {StartTime, StartTime + 5000, StartTime + 35000}

NextEdges == Webhook(PreambleTexts, EdgeTimePoints) \/ Resumes

SpecEdges == Init /\ [][NextEdges]_vars

\* Intermediate prompts: a prompt, a voicemail greeting and human speech of
\* more than ten words, which keeps the window from being taken for a prompt,
\* all as the call is answered.
LongQuestion == "who is this and what do you want from me today"
PromptTexts == {"Thanks", "leave a message", LongQuestion}

NextPrompts == Webhook(PromptTexts, WindowTimes) \/ Resumes

SpecPrompts == Init /\ [][NextPrompts]_vars

\* One webhook at a time: a webhook is delivered only when no handler
\* invocation is suspended, so that each invocation completes before the
\* next begins.
NextSequential == (inFlight = {} /\ Webhook(PreambleTexts, TimePoints)) \/ Resumes

SpecSequential == Init /\ [][NextSequential]_vars

\* Two calls in one process: the webhooks of both, with the texts of the
\* preamble specification, as the calls are answered.
WebhookOf(calls, texts, times) ==
    \/ \E c \in calls, st \in CallStatuses, t \in times :
           StatusCallback(c, st, t)
    \/ \E c \in calls, a \in AnsweredByValues : AsyncAmdCallback(c, a)
    \/ \E c \in calls : TranscriptionStarted(c)
    \/ \E c \in calls : TranscriptionStopped(c)
    \/ \E c \in calls, text \in texts, t \in times :
           TranscriptionContent(c, TranscriptionDataOf(text), t)

NextCalls == WebhookOf(AllCallSids, PreambleTexts, WindowTimes) \/ Resumes

SpecCalls == Init /\ [][NextCalls]_vars

\* The classifier alone: detectHumanSpeech applied to a text that grows by
\* one fragment at a time; the fragments hold a phrase of every pattern
\* list, and enough words to pass the length gate of the prompts.
Fragments ==
    { "who is this", "Thanks", "record your name", "leave a message",
      "you have reached", "why?", "and what do you want from me today" }

Classify(fragment) ==
    /\ delivered < MaxEvents
    /\ delivered' = delivered + 1
    /\ LET text == IF lastEvent.arg = "" THEN fragment
                   ELSE lastEvent.arg \o " " \o fragment
       IN  lastEvent' = [NoEvent EXCEPT !.kind = "classify", !.arg = text,
                            !.response = IF detectHumanSpeech(text) THEN "human"
                                         ELSE "other"]
    /\ responses' = Append(responses, 1)
    /\ UNCHANGED <<sessionVars, now, liveCall, inFlight, invoked, ended, epoch>>

NextClassifier == \E fragment \in Fragments : Classify(fragment)

SpecClassifier == Init /\ [][NextClassifier]_vars

TypeOK ==
    /\ DOMAIN callStates \subseteq AllCallSids
    /\ \A c \in DOMAIN callStates :
           callStates[c] \in {"INITIAL", "IOS26_MONITORING", "PASSTHROUGH",
                              "VOICEMAIL_DELIVERED"}
    /\ \A c \in DOMAIN callTranscripts : Len(callTranscripts[c]) <= 300
    /\ now \in LET times == TimePoints \cup LateTimePoints \cup EdgeTimePoints
               IN  times \cup {t + 100 : t \in times}
    /\ Cardinality(inFlight) <= delivered
    /\ delivered <= MaxEvents
    /\ Len(responses) = delivered

(***************************************************************************)
(* Properties                                                              *)
(***************************************************************************)

\* steps that handle a webhook of a given kind
TranscriptStep == delivered' = delivered + 1 /\ lastEvent'.kind = "transcript"
AmdStep == delivered' = delivered + 1 /\ lastEvent'.kind = "amd"
LifecycleStep == delivered' = delivered + 1 /\ lastEvent'.kind = "lifecycle"

\* the step called an action function of the given kind for callSid
Invokes(callSid, action) ==
    /\ Len(invoked') = Len(invoked) + 1
    /\ invoked'[Len(invoked')].callSid = callSid
    /\ invoked'[Len(invoked')].action = action
    /\ \A i \in DOMAIN invoked :
           invoked'[i].ev = invoked[i].ev /\ invoked'[i].action = invoked[i].action

\* the transcript window of callSid once the step is done
WindowAfter(callSid) ==
    IF callSid \in DOMAIN callTranscripts' THEN callTranscripts'[callSid] ELSE ""

\* no map holds anything for callSid
NoSession(callSid) ==
    /\ callSid \notin DOMAIN callStates
    /\ callSid \notin DOMAIN callTranscripts
    /\ callSid \notin DOMAIN callStartTimes
    /\ callSid \notin DOMAIN amdResults
    /\ callSid \notin DOMAIN processedActions

\* C1: within one session a call never gets both a Passthrough and a
\* LeaveVoicemail invocation.
C1_OneTerminalAction ==
    \A i, j \in DOMAIN invoked :
        ~ /\ invoked[i].callSid = invoked[j].callSid
          /\ invoked[i].epoch = invoked[j].epoch
          /\ invoked[i].action = "Passthrough"
          /\ invoked[j].action = "LeaveVoicemail"

ForwardTransitions ==
    { <<"INITIAL", "IOS26_MONITORING">>,
      <<"INITIAL", "PASSTHROUGH">>,
      <<"INITIAL", "VOICEMAIL_DELIVERED">>,
      <<"IOS26_MONITORING", "PASSTHROUGH">>,
      <<"IOS26_MONITORING", "VOICEMAIL_DELIVERED">> }

\* C2: while a session exists its state only moves forward: every change of
\* the state is INITIAL -> IOS26_MONITORING, INITIAL -> terminal or
\* IOS26_MONITORING -> terminal; a terminal state is never left or swapped.
C2_StateOnlyAdvances ==
    [][\A c \in CallSids :
          (c \in DOMAIN callStates /\ c \in DOMAIN callStates'
              /\ callStates'[c] # callStates[c])
            => <<callStates[c], callStates'[c]>> \in ForwardTransitions]_vars

\* C3: the same transcript delivered several times to one session invokes
\* its action at most once.
C3_ReplayInvokesOnce ==
    \A i, j \in DOMAIN invoked :
        (/\ i # j
         /\ invoked[i].callSid = invoked[j].callSid
         /\ invoked[i].epoch = invoked[j].epoch
         /\ invoked[i].text = invoked[j].text)
          => invoked[i].action # invoked[j].action

\* C4: handling a lifecycle event with status completed, failed, canceled
\* or no-answer leaves no session data for the call, whatever its state was.
C4_TerminalStatusDeletesSession ==
    [][\A c \in CallSids :
          (LifecycleStep /\ lastEvent'.callSid = c
              /\ IsCleanupStatus(lastEvent'.arg))
            => NoSession(c)']_vars

\* C5: once the terminal lifecycle event of a call has been handled and the
\* call has no session data, no later transcript event and no handler
\* invocation still in flight creates session data for it again or invokes
\* an action for it.
C5_DeadSessionStaysDead ==
    [][\A c \in CallSids :
          (c \in ended /\ NoSession(c) /\ ~LifecycleStep /\ ~AmdStep)
            => /\ NoSession(c)'
               /\ \A a \in {"Identify", "LeaveVoicemail", "Passthrough"} :
                      ~Invokes(c, a)]_vars

\* C6: handling a machine-detection event invokes no action and leaves the
\* state, start time, transcript window and tags of every session as they
\* were; only the machine signal may change.
C6_AmdOnlySetsSignal ==
    [][AmdStep =>
          /\ invoked' = invoked
          /\ inFlight' = inFlight
          /\ callStates' = callStates
          /\ callStartTimes' = callStartTimes
          /\ callTranscripts' = callTranscripts
          /\ processedActions' = processedActions]_vars

C6_Witness ==
    /\ lastEvent.kind = "amd"
    /\ lastEvent.callSid \in DOMAIN callStates
    /\ callStates[lastEvent.callSid] = "INITIAL"
    /\ getAMDResult(amdResults, lastEvent.callSid) = lastEvent.arg
    /\ lastEvent.callSid \in DOMAIN callTranscripts
    /\ callTranscripts[lastEvent.callSid] # ""

C8_VoicemailAfterPreamble ==
    [][\A c \in CallSids :
          (/\ TranscriptStep /\ lastEvent'.callSid = c
           /\ getCallState(callStates, c) = "IOS26_MONITORING"
           /\ ~detectIntermediatePrompts(lastEvent'.arg)
           /\ \/ detectVoicemailPatterns(lastEvent'.arg)
              \/ detectVoicemailPatterns(WindowAfter(c)))
            => /\ hasProcessedAction(processedActions', c, "voicemail_after_ios26")
               /\ callStates'[c] = "VOICEMAIL_DELIVERED"
               /\ Invokes(c, "LeaveVoicemail")]_vars

C8_Witness ==
    /\ lastEvent.kind = "transcript"
    /\ lastEvent.branch = "scenario1_voicemail"
    /\ callStates[lastEvent.callSid] = "VOICEMAIL_DELIVERED"
    /\ hasProcessedAction(processedActions, lastEvent.callSid, "voicemail_after_ios26")
    /\ Len(invoked) >= 2
    /\ invoked[Len(invoked)].branch = "scenario1_voicemail"
    /\ \E i \in 1..(Len(invoked) - 1) :
           /\ invoked[i].action = "Identify"
           /\ invoked[i].epoch = invoked[Len(invoked)].epoch

\* the session of callSid went to IOS26_MONITORING on a detected preamble
EnteredByPreamble(callSid) ==
    \E i \in DOMAIN invoked :
        /\ invoked[i].callSid = callSid
        /\ invoked[i].epoch = epoch[callSid]
        /\ invoked[i].branch = "scenario1"

\* C9: in a session that went to IOS26_MONITORING on a preamble, a transcript
\* with human speech and no voicemail greeting invokes Passthrough; when
\* that invocation returns the state is PASSTHROUGH; and no step invokes
\* Identify for a session that already had an Identify invocation.
C9_HumanAfterPreamble ==
    [][\A c \in CallSids :
          /\ (/\ TranscriptStep /\ lastEvent'.callSid = c
              /\ getCallState(callStates, c) = "IOS26_MONITORING"
              /\ EnteredByPreamble(c)
              /\ detectHumanSpeech(lastEvent'.arg)
              /\ ~detectVoicemailPatterns(lastEvent'.arg)
              /\ ~detectVoicemailPatterns(WindowAfter(c)))
               => /\ Invokes(c, "Passthrough")
                  /\ lastEvent'.branch = "scenario2"
          /\ \A i \in DOMAIN invoked :
                 (/\ invoked[i].callSid = c
                  /\ invoked[i].branch = "scenario2"
                  /\ invoked[i].result = "pending"
                  /\ invoked'[i].result # "pending")
                   => getCallState(callStates', c) = "PASSTHROUGH"
          /\ Invokes(c, "Identify")
               => \A i \in DOMAIN invoked :
                      ~ /\ invoked[i].callSid = c
                        /\ invoked[i].epoch = invoked'[Len(invoked')].epoch
                        /\ invoked[i].action = "Identify"]_vars

C9_Witness ==
    \E i, j \in DOMAIN invoked :
        /\ i < j
        /\ invoked[i].branch = "scenario1"
        /\ invoked[j].branch = "scenario2"
        /\ invoked[j].epoch = invoked[i].epoch
        /\ invoked[j].result # "pending"
        /\ getCallState(callStates, invoked[j].callSid) = "PASSTHROUGH"

\* C10: in state INITIAL, with no preamble in the window and no machine
\* signal, the transcript "hello?" at an elapsed time inside (5 s, 35 s)
\* invokes Passthrough through the early-human branch.
C10_HelloPassesThrough ==
    [][\A c \in CallSids :
          (/\ TranscriptStep /\ lastEvent'.callSid = c
           /\ lastEvent'.arg = "hello?"
           /\ getCallState(callStates, c) = "INITIAL"
           /\ c \notin DOMAIN amdResults
           /\ ~detectIOS26Patterns(WindowAfter(c))
           /\ getCallElapsedTime(callStartTimes, c, now') > 5000
           /\ getCallElapsedTime(callStartTimes, c, now') < 35000)
            => /\ Invokes(c, "Passthrough")
               /\ lastEvent'.branch = "scenario3"]_vars

\* C11: in state INITIAL, a transcript with a voicemail greeting and no
\* preamble, neither in it nor in the window, at any elapsed time below
\* 30 s, invokes LeaveVoicemail through the direct-voicemail branch and
\* leaves the state VOICEMAIL_DELIVERED.
C11_GreetingLeavesVoicemail ==
    [][\A c \in CallSids :
          (/\ TranscriptStep /\ lastEvent'.callSid = c
           /\ detectVoicemailPatterns(lastEvent'.arg)
           /\ ~detectIOS26Patterns(lastEvent'.arg)
           /\ ~detectIOS26Patterns(WindowAfter(c))
           /\ getCallState(callStates, c) = "INITIAL"
           /\ getCallElapsedTime(callStartTimes, c, now') < 30000)
            => /\ Invokes(c, "LeaveVoicemail")
               /\ lastEvent'.branch = "scenario4"
               /\ getCallState(callStates', c) = "VOICEMAIL_DELIVERED"]_vars

\* C12: a transcript webhook whose payload cannot be parsed is dropped and
\* changes nothing in the session store, also when the call had no session.
C12_UnparseableChangesNothing ==
    [][(TranscriptStep /\ lastEvent'.branch = "parse_error")
          => /\ sessionVars' = sessionVars
             /\ UNCHANGED <<inFlight, invoked, liveCall>>]_vars

\* the step ends the action function called i-th: its result is known
ReturnsAt(i) ==
    /\ i \in DOMAIN invoked /\ i \in DOMAIN invoked'
    /\ invoked[i].result = "pending"
    /\ invoked'[i].result # "pending"

\* milliseconds between the last modification of the call and the step
MsSinceUpdate(callSid) == now' - liveCall[callSid].dateUpdated

RecentUpdateMs == 2000

\* C13: Identify, LeaveVoicemail and Passthrough each re-read the call
\* after a delay before they modify it; one that finds the call modified
\* less than 2 s ago modifies nothing and reports ABORTED.
C13_ActionsRecheckTheCall ==
    [][\A i \in DOMAIN invoked :
          (ReturnsAt(i) /\ MsSinceUpdate(invoked[i].callSid) < RecentUpdateMs)
            => /\ invoked'[i].result = "ABORTED"
               /\ liveCall' = liveCall]_vars

\* the step left the call on the platform as it was: the action function
\* that returns in it gave up or failed
CallNotModified(callSid) == liveCall'[callSid].dateUpdated # now'

\* C14: an action function that fails for a reason other than a concurrent
\* modification returns ERROR (its results being SUCCESS, ABORTED and
\* ERROR), and the resolver then reports no detection.
C14_FailureIsAnError ==
    [][\A i \in DOMAIN invoked :
          (ReturnsAt(i) /\ CallNotModified(invoked[i].callSid))
            => /\ invoked'[i].result \in {"ABORTED", "ERROR"}
               /\ invoked'[i].detected = "no"]_vars

\* C15: when Identify reports ABORTED the resolver reports no detection,
\* the session is left as it is (IOS26_MONITORING is not rolled back), and
\* Identify is not called again for the session, on this event or later.
C15_AbortedIdentifyIsFinal ==
    [][\A i \in DOMAIN invoked :
          LET c == invoked[i].callSid
          IN  invoked[i].action = "Identify" =>
                /\ (ReturnsAt(i) /\ invoked'[i].result = "ABORTED")
                      => /\ invoked'[i].detected = "no"
                         /\ sessionVars' = sessionVars
                         /\ Len(invoked') = Len(invoked)
                /\ (invoked[i].result = "ABORTED" /\ invoked[i].epoch = epoch[c])
                      => /\ ~Invokes(c, "Identify")
                         /\ getCallState(callStates, c) = "IOS26_MONITORING"
                               => getCallState(callStates', c) # "INITIAL"]_vars

\* Identify was aborted, the session is still IOS26_MONITORING, and a
\* preamble heard again called no action function
C15_Witness ==
    \E i \in DOMAIN invoked :
        /\ invoked[i].action = "Identify" /\ invoked[i].result = "ABORTED"
        /\ invoked[i].epoch = epoch[invoked[i].callSid]
        /\ getCallState(callStates, invoked[i].callSid) = "IOS26_MONITORING"
        /\ invoked[i].ev < delivered
        /\ lastEvent.kind = "transcript" /\ lastEvent.callSid = invoked[i].callSid
        /\ detectIOS26Patterns(lastEvent.arg)
        /\ lastEvent.branch = "none"
        /\ Len(invoked) = i

\* cap of the transcript window, in characters
WindowCap == 300

IsSuffix(w, text) ==
    Len(w) <= Len(text) /\ SubSeq(text, Len(text) - Len(w) + 1, Len(text)) = w

\* the window of callSid before the step, empty when there is none
WindowBefore(callSid) ==
    IF callSid \in DOMAIN callTranscripts THEN callTranscripts[callSid] ELSE ""

\* C16 (as claimed), for the transcript that creates the session, the only
\* text received so far: the window is at most 300 characters long and is
\* the most recent characters of that text.
C16_WindowIsRecentText ==
    [][\A c \in CallSids :
          (/\ TranscriptStep /\ lastEvent'.callSid = c
           /\ lastEvent'.branch # "parse_error"
           /\ NoSession(c))
            => /\ Len(WindowAfter(c)) <= WindowCap
               /\ IsSuffix(WindowAfter(c), lastEvent'.arg)
               /\ Len(WindowAfter(c)) =
                      IF Len(lastEvent'.arg) < WindowCap
                        THEN Len(lastEvent'.arg) ELSE WindowCap]_vars

\* C16 (amended): after a transcript event with a text that is not blank,
\* the window is at most 300 characters long and is the most recent
\* characters of the window before the event, a space and the trimmed
\* text; hence of the trimmed texts received since the window was last
\* empty, a space before each of them.
C16_WindowSlides ==
    [][\A c \in CallSids :
          (/\ TranscriptStep /\ lastEvent'.callSid = c
           /\ Trim(lastEvent'.arg) # "")
            => LET joined == WindowBefore(c) \o " " \o Trim(lastEvent'.arg)
               IN  /\ Len(WindowAfter(c)) <= WindowCap
                   /\ IsSuffix(WindowAfter(c), joined)
                   /\ Len(WindowAfter(c)) =
                          IF Len(joined) < WindowCap THEN Len(joined)
                          ELSE WindowCap]_vars

\* the cap has dropped the oldest characters: the window is full and no
\* longer begins with the space put before the first text
C16_Witness ==
    \E c \in DOMAIN callTranscripts :
        /\ lastEvent.kind = "transcript" /\ lastEvent.callSid = c
        /\ Len(callTranscripts[c]) = WindowCap
        /\ SubSeq(callTranscripts[c], 1, 1) # " "
        /\ IsSuffix(lastEvent.arg, callTranscripts[c])

\* C17: the start time of a session is taken once, when the session is
\* created, and no later webhook changes it while the session exists; a
\* lifecycle webhook does not empty the window either.
C17_StartTimeTakenOnce ==
    [][\A c \in CallSids :
          (/\ c \in DOMAIN callStartTimes /\ c \in DOMAIN callStartTimes'
           /\ epoch'[c] = epoch[c])
            => /\ callStartTimes'[c] = callStartTimes[c]
               /\ LifecycleStep => WindowAfter(c) = WindowBefore(c)]_vars

\* C19: once the state of a session is PASSTHROUGH it stays PASSTHROUGH and
\* no later step calls LeaveVoicemail for the session.
C19_NoVoicemailAfterPassthrough ==
    [][\A c \in CallSids :
          getCallState(callStates, c) = "PASSTHROUGH"
            => /\ ~Invokes(c, "LeaveVoicemail")
               /\ getCallState(callStates', c) = "PASSTHROUGH"]_vars

\* a voicemail greeting was heard in state PASSTHROUGH, after Passthrough
\* had returned, and called nothing
C19_Witness ==
    \E c \in DOMAIN callStates :
        /\ callStates[c] = "PASSTHROUGH"
        /\ lastEvent.kind = "transcript" /\ lastEvent.callSid = c
        /\ detectVoicemailPatterns(lastEvent.arg)
        /\ lastEvent.branch = "none"
        /\ \A i \in DOMAIN invoked : invoked[i].action # "LeaveVoicemail"
        /\ \E i \in DOMAIN invoked :
               /\ invoked[i].action = "Passthrough" /\ invoked[i].callSid = c
               /\ invoked[i].result # "pending"
               /\ invoked[i].ev < delivered

\* a transcript in which no detector finds anything
NoPatternText == "hello?"

\* one elapsed time (ms) in each interval cut by the thresholds of the
\* resolver (5 s, 12 s, 20 s, 25 s, 30 s, 35 s)
ElapsedSamples == {0, 8000, 15000, 22000, 27000, 32000, 40000}

\* the action a transcript without pattern would call for callSid if it
\* were handled next, at the elapsed time e
NoPatternAction(callSid, e) ==
    LET state == getCallState(callStates, callSid)
    IN  BranchAction(ScenarioBranch(state, e, getAMDResult(amdResults, callSid),
                                    NoPatternText,
                                    Accumulate(callTranscripts, callSid, NoPatternText),
                                    processedActions, callSid, state))

\* C20: no call hangs: a session that is not resolved, and for which no
\* action function is still running, can still be resolved by timing
\* alone; some later transcript without any pattern calls Passthrough or
\* LeaveVoicemail for it.
C20_TimingStillResolves ==
    \A c \in DOMAIN callStates :
        (/\ callStates[c] \in {"INITIAL", "IOS26_MONITORING"}
         /\ \A h \in inFlight : h.callSid # c)
          => \E e \in ElapsedSamples :
                 /\ e >= getCallElapsedTime(callStartTimes, c, now)
                 /\ NoPatternAction(c, e) \in {"Passthrough", "LeaveVoicemail"}

C21_SignalIsLatest ==
    [][\A c \in CallSids :
          (AmdStep /\ lastEvent'.callSid = c)
            => getAMDResult(amdResults', c) = lastEvent'.arg]_vars

\* C21 (amended): after a machine-detection webhook for a call whose
\* session is not in PASSTHROUGH or VOICEMAIL_DELIVERED, the signal stored
\* is the one the webhook carried, whatever was stored before; in these
\* two states the webhook is ignored and the stored signal stays.
C21_SignalIsLatestUntilResolved ==
    [][\A c \in CallSids :
          (AmdStep /\ lastEvent'.callSid = c)
            => IF IsTerminalState(getCallState(callStates, c))
                 THEN amdResults' = amdResults
                 ELSE /\ getAMDResult(amdResults', c) = lastEvent'.arg
                      /\ \A d \in DOMAIN amdResults \ {c} :
                             getAMDResult(amdResults', d) = amdResults[d]]_vars

\* a machine-detection webhook was handled for a session that is not
\* resolved, and its signal is the one stored
C21_Witness ==
    /\ lastEvent.kind = "amd"
    /\ lastEvent.callSid \in DOMAIN callStates
    /\ callStates[lastEvent.callSid] = "IOS26_MONITORING"
    /\ getAMDResult(amdResults, lastEvent.callSid) = lastEvent.arg
    /\ lastEvent.arg = "human"

\* the state an action function stands for
TargetState(action) ==
    CASE action = "Passthrough" -> "PASSTHROUGH"
      [] action = "LeaveVoicemail" -> "VOICEMAIL_DELIVERED"
      [] OTHER -> "IOS26_MONITORING"

\* C22: when an action function is called, the tag of its branch is marked
\* and the state transition is done already; so for Passthrough called in
\* IOS26_MONITORING on human speech (tag human_after_ios26, PASSTHROUGH).
C22_MarkedBeforeInvoked ==
    [][\A c \in CallSids, a \in {"Identify", "LeaveVoicemail", "Passthrough"} :
          Invokes(c, a)
            => LET branch == invoked'[Len(invoked')].branch
               IN  /\ getCallState(callStates', c) = TargetState(a)
                   /\ BranchTag(branch) # "none"
                         => hasProcessedAction(processedActions', c,
                                               BranchTag(branch))]_vars

(***************************************************************************)
(* C23: when the direct-voicemail branch (scenario 4) calls LeaveVoicemail *)
(* the tag voicemail_direct is already marked and the state is already     *)
(* VOICEMAIL_DELIVERED, and the branch has not called LeaveVoicemail       *)
(* before in this session, even while an earlier call of it is still       *)
(* awaiting its update.                                                    *)
(***************************************************************************)

\* the entries of invoked that scenario 4 made for the session of callSid
DirectVoicemailCalls(log, callSid) ==
    {i \in DOMAIN log : /\ log[i].callSid = callSid
                         /\ log[i].branch = "scenario4"
                         /\ log[i].epoch = epoch[callSid]}

C23_DirectVoicemailOnce ==
    [][\A c \in CallSids :
          (Invokes(c, "LeaveVoicemail") /\ invoked'[Len(invoked')].branch = "scenario4")
              => /\ hasProcessedAction(processedActions', c, "voicemail_direct")
                 /\ getCallState(callStates', c) = "VOICEMAIL_DELIVERED"
                 /\ DirectVoicemailCalls(invoked, c) = {}]_vars

\* a second voicemail greeting arrived while the LeaveVoicemail of the first
\* was still awaiting its update, and was skipped
C23_Witness ==
    /\ lastEvent.kind = "transcript" /\ lastEvent.arg = "leave a message"
    /\ lastEvent.branch = "none"
    /\ \E h \in inFlight : /\ h.callSid = lastEvent.callSid
                            /\ h.branch = "scenario4"
                            /\ h.pc = "voicemail_update"
    /\ Cardinality(DirectVoicemailCalls(invoked, lastEvent.callSid)) = 1

(***************************************************************************)
(* C24: one transcript event is resolved by at most one branch: its        *)
(* handling, from the webhook to the return of the action function, calls  *)
(* at most one action function and changes the state of the session at     *)
(* most once: in the webhook step for Identify and LeaveVoicemail, in the  *)
(* return step for Passthrough, and nowhere else.                          *)
(***************************************************************************)

\* the state the resolver reads on entry, after the late initialisation
StateOnEntry(callSid) ==
    IF callSid \in DOMAIN callStates THEN callStates[callSid] ELSE "INITIAL"

C24_OneBranchPerEvent ==
    [][\A c \in CallSids :
          /\ (TranscriptStep /\ lastEvent'.callSid = c)
                => /\ Len(invoked') <= Len(invoked) + 1
                   /\ \A i, j \in DOMAIN invoked' :
                          invoked'[i].ev = invoked'[j].ev => i = j
                   /\ getCallState(callStates', c) # StateOnEntry(c)
                        => Invokes(c, "Identify") \/ Invokes(c, "LeaveVoicemail")
          /\ \A h \in inFlight :
                 (h.callSid = c /\ h \notin inFlight'
                      /\ getCallState(callStates', c) # getCallState(callStates, c))
                   => h.pc = "passthrough_update"]_vars

\* early human speech with a machine signal: the conditions of the early human
\* branch and of the direct-voicemail branch both held, the first one resolved
\* the event, and its one action has returned
C24_Witness ==
    /\ lastEvent.kind = "transcript" /\ lastEvent.branch = "scenario3"
    /\ getAMDResult(amdResults, lastEvent.callSid) = "machine_start"
    /\ getCallState(callStates, lastEvent.callSid) = "PASSTHROUGH"
    /\ Len(invoked) = 1 /\ invoked[1].result # "pending"

(***************************************************************************)
(* C25: Identify re-reads the call once its 100 ms delay has passed.  When *)
(* the re-read succeeds and shows a terminal status or an update less than *)
(* 2 s old, Identify returns ABORTED and the call is not updated; when the *)
(* update request fails on a concurrent modification, Identify returns     *)
(* ABORTED as well.                                                        *)
(***************************************************************************)

IdentifyDelayMs == 100

\* the invocation of handler h has returned ABORTED and left the call alone
AbortedWithoutUpdate(h) ==
    /\ \A i \in DOMAIN invoked :
           invoked[i].ev = h.ev => invoked'[i].result = "ABORTED"
    /\ \A g \in inFlight' : g.ev # h.ev
    /\ liveCall' = liveCall

C25_RecheckAborts ==
    [][\A h \in inFlight :
          /\ \A f \in FetchResults :
                 IdentifyRecheck(h, f)
                   => /\ now' >= h.t0 + IdentifyDelayMs
                      /\ (/\ f # "error"
                          /\ \/ f \in {"completed", "busy", "failed", "canceled"}
                             \/ now' - liveCall[h.callSid].dateUpdated < RecentUpdateMs)
                            => AbortedWithoutUpdate(h)
          /\ IdentifyUpdateReturns(h, "ABORTED") => AbortedWithoutUpdate(h)]_vars

\* the call was updated, and an Identify that re-read it less than 2 s
\* later returned ABORTED
C25_Witness ==
    \E i \in DOMAIN invoked :
        /\ invoked[i].action = "Identify" /\ invoked[i].result = "ABORTED"
        /\ liveCall[invoked[i].callSid].dateUpdated > StartTime
        /\ now - liveCall[invoked[i].callSid].dateUpdated < RecentUpdateMs
        /\ \E j \in DOMAIN invoked : j < i /\ invoked[j].result = "SUCCESS"

(***************************************************************************)
(* C26: with a second instance of the function, which does not share the   *)
(* session maps, two Identify invocations for one call can be pending at   *)
(* once; the recheck of each reads the call alone, so while the call is    *)
(* live and was not updated in the last 2 s each of them passes, whatever  *)
(* the other is doing, and both go on to update the call.                  *)
(***************************************************************************)

C26_BothPassTheRecheck ==
    [][\A h \in inFlight, g \in inFlight :
          (/\ g # h /\ g.callSid = h.callSid
           /\ g.pc \in {"identify_delay", "identify_update"}
           /\ IdentifyRecheck(h, "in-progress")
           /\ now' - liveCall[h.callSid].dateUpdated >= RecentUpdateMs)
             => [h EXCEPT !.pc = "identify_update"] \in inFlight']_vars

\* two Identify invocations for the same session of the same call have both
\* updated the call
C26_Witness ==
    \E i \in DOMAIN invoked, j \in DOMAIN invoked :
        /\ i < j /\ invoked[i].callSid = invoked[j].callSid
        /\ invoked[i].epoch = invoked[j].epoch
        /\ invoked[i].action = "Identify" /\ invoked[j].action = "Identify"
        /\ invoked[i].result = "SUCCESS" /\ invoked[j].result = "SUCCESS"
        /\ now - liveCall[invoked[i].callSid].dateUpdated < RecentUpdateMs

(***************************************************************************)
(* C27: transcription is started once per call: a lifecycle webhook of a   *)
(* call that was answered with the instruction that starts transcription   *)
(* is not followed by another lifecycle webhook of that call answered with *)
(* it.                                                                     *)
(***************************************************************************)

C27_TranscriptionStartedOnce ==
    [][\A c \in CallSids :
          (/\ lastEvent.kind = "lifecycle" /\ lastEvent.callSid = c
           /\ lastEvent.response = "start"
           /\ LifecycleStep /\ lastEvent'.callSid = c)
             => lastEvent'.response # "start"]_vars

(***************************************************************************)
(* C28: a session that has been IOS26_MONITORING for more than 25 s and    *)
(* has heard no voicemail greeting is resolved by the next transcript that *)
(* is not an intermediate prompt: Passthrough is called for it, whether or *)
(* not the text holds human speech.                                        *)
(***************************************************************************)

MonitoringLimitMs == 25000

C28_LongMonitoringPassesThrough ==
    [][\A c \in CallSids :
          (/\ TranscriptStep /\ lastEvent'.callSid = c
           /\ getCallState(callStates, c) = "IOS26_MONITORING"
           /\ now' - now > MonitoringLimitMs
           /\ Trim(lastEvent'.arg) # ""
           /\ ~detectIntermediatePrompts(lastEvent'.arg)
           /\ ~detectVoicemailPatterns(WindowAfter(c)))
             => Invokes(c, "Passthrough")]_vars

(***************************************************************************)
(* C29: timing fallback for a direct answer.  A transcript heard in state  *)
(* INITIAL at an elapsed time between 20 s and 25 s that did not trigger   *)
(* the early human branch calls Passthrough exactly when the window holds  *)
(* no preamble, the machine signal is neither machine_start nor            *)
(* machine_end_beep and the tag human_passthrough_fallback has not fired;  *)
(* the return of that Passthrough sets the state PASSTHROUGH and marks the *)
(* tag.                                                                    *)
(***************************************************************************)

FallbackFromMs == 20000
FallbackUntilMs == 25000

RetroactiveUntilMs == 12000

\* the elapsed time the resolver reads for a webhook arriving in this step
ElapsedOnEntry(callSid) ==
    IF callSid \in DOMAIN callStartTimes THEN now' - callStartTimes[callSid] ELSE 0

C30_RetroactiveInference ==
    [][\A c \in CallSids :
          (/\ TranscriptStep /\ lastEvent'.callSid = c
           /\ StateOnEntry(c) = "INITIAL"
           /\ detectIntermediatePrompts(lastEvent'.arg)
           /\ ElapsedOnEntry(c) < RetroactiveUntilMs
           /\ ~detectIOS26Patterns(lastEvent'.arg)
           /\ ~detectIOS26Patterns(WindowAfter(c))
           /\ ~detectVoicemailPatterns(WindowAfter(c))
           /\ ~detectHumanSpeech(WindowAfter(c))
           /\ getAMDResult(amdResults, c) # "human")
             => /\ Invokes(c, "Identify")
                /\ getCallState(callStates', c) = "IOS26_MONITORING"]_vars

(***************************************************************************)
(* C31: the early human branch acts only inside its window.  A transcript  *)
(* heard in state INITIAL at an elapsed time of 5 s or less, or of 35 s or *)
(* more, calls no Passthrough, whatever the text, the window and the       *)
(* machine signal.                                                         *)
(***************************************************************************)

EarlyHumanFromMs == 5000
EarlyHumanUntilMs == 35000

C31_PassthroughOnlyInWindow ==
    [][\A c \in CallSids :
          (/\ TranscriptStep /\ lastEvent'.callSid = c
           /\ StateOnEntry(c) = "INITIAL"
           /\ \/ ElapsedOnEntry(c) <= EarlyHumanFromMs
              \/ ElapsedOnEntry(c) >= EarlyHumanUntilMs)
             => ~Invokes(c, "Passthrough")]_vars

\* human speech heard exactly 35 s into an INITIAL session, with the machine
\* signal human: nothing was called and the session is still INITIAL
C31_Witness ==
    /\ lastEvent.kind = "transcript" /\ detectHumanSpeech(lastEvent.arg)
    /\ lastEvent.callSid \in DOMAIN callStartTimes
    /\ now - callStartTimes[lastEvent.callSid] = EarlyHumanUntilMs
    /\ getAMDResult(amdResults, lastEvent.callSid) = "human"
    /\ getCallState(callStates, lastEvent.callSid) = "INITIAL"
    /\ invoked = <<>>

(***************************************************************************)
(* C32: in state IOS26_MONITORING a transcript that is an intermediate     *)
(* prompt changes no state and calls no action, even when the window holds *)
(* a voicemail greeting or human speech.                                   *)
(***************************************************************************)

C32_IntermediatePromptKeepsMonitoring ==
    [][\A c \in CallSids :
          (/\ TranscriptStep /\ lastEvent'.callSid = c
           /\ getCallState(callStates, c) = "IOS26_MONITORING"
           /\ detectIntermediatePrompts(lastEvent'.arg))
             => /\ callStates' = callStates
                /\ processedActions' = processedActions
                /\ invoked' = invoked
                /\ inFlight' = inFlight]_vars

\* an intermediate prompt was heard in IOS26_MONITORING while the window
\* held human speech, and nothing was called for it
C32_Witness ==
    /\ lastEvent.kind = "transcript" /\ detectIntermediatePrompts(lastEvent.arg)
    /\ lastEvent.branch = "none"
    /\ getCallState(callStates, lastEvent.callSid) = "IOS26_MONITORING"
    /\ lastEvent.callSid \in DOMAIN callTranscripts
    /\ detectHumanSpeech(callTranscripts[lastEvent.callSid])

(***************************************************************************)
(* C33: a lifecycle or machine-detection webhook for a call whose session  *)
(* is PASSTHROUGH or VOICEMAIL_DELIVERED is short-circuited: it is         *)
(* answered with an empty response, calls no action and changes none of    *)
(* the session maps.                                                       *)
(***************************************************************************)

C34_ResolvedCallIgnoresTranscripts ==
    [][\A c \in CallSids :
          (/\ TranscriptStep /\ lastEvent'.callSid = c
           /\ getCallState(callStates, c) \in {"PASSTHROUGH", "VOICEMAIL_DELIVERED"})
             => /\ invoked' = invoked
                /\ inFlight' = inFlight
                /\ callStates' = callStates
                /\ processedActions' = processedActions]_vars

\* a preamble heard after the voicemail message was left called nothing
C34_Witness ==
    /\ lastEvent.kind = "transcript" /\ detectIOS26Patterns(lastEvent.arg)
    /\ lastEvent.branch = "none"
    /\ getCallState(callStates, lastEvent.callSid) = "VOICEMAIL_DELIVERED"
    /\ Len(invoked) = 1 /\ invoked[1].action = "LeaveVoicemail"

(***************************************************************************)
(* C35: when the webhooks of a call are handled one at a time and no       *)
(* terminal lifecycle webhook ends the session, the session sees at most   *)
(* one terminal action (Passthrough or LeaveVoicemail), and no action of   *)
(* any kind is called after it.                                            *)
(***************************************************************************)

C35_OneTerminalActionInSequence ==
    \A i \in DOMAIN invoked, j \in DOMAIN invoked :
        (/\ i < j
         /\ invoked[i].callSid = invoked[j].callSid
         /\ invoked[i].epoch = invoked[j].epoch)
          => invoked[i].action \notin {"Passthrough", "LeaveVoicemail"}

\* a monitored call was passed through, and a voicemail greeting heard
\* afterwards called nothing
C35_Witness ==
    /\ Len(invoked) = 2
    /\ invoked[1].action = "Identify" /\ invoked[2].action = "Passthrough"
    /\ invoked[2].result # "pending"
    /\ lastEvent.kind = "transcript" /\ detectVoicemailPatterns(lastEvent.arg)
    /\ lastEvent.branch = "none"
    /\ getCallState(callStates, lastEvent.callSid) = "PASSTHROUGH"

(***************************************************************************)
(* C36: whenever no handler invocation is in progress for a call, its      *)
(* session is not INITIAL with a preamble phrase in the transcript window: *)
(* a preamble heard in INITIAL moves the session out of INITIAL in the     *)
(* handling of that very transcript.                                       *)
(***************************************************************************)

C36_NoPreambleLeftInInitial ==
    \A c \in CallSids :
        (\A h \in inFlight : h.callSid # c)
          => ~(/\ getCallState(callStates, c) = "INITIAL"
               /\ c \in DOMAIN callTranscripts
               /\ detectIOS26Patterns(callTranscripts[c]))

\* the preamble was heard, Identify gave up and returned: the session is
\* IOS26_MONITORING all the same
C36_Witness ==
    /\ inFlight = {}
    /\ Len(invoked) = 1 /\ invoked[1].action = "Identify"
    /\ invoked[1].result = "ABORTED"
    /\ invoked[1].callSid \in DOMAIN callTranscripts
    /\ detectIOS26Patterns(callTranscripts[invoked[1].callSid])
    /\ getCallState(callStates, invoked[1].callSid) = "IOS26_MONITORING"

(***************************************************************************)
(* C37: the webhooks of one call never affect another call.  Handling a    *)
(* webhook of call A, and resuming a handler of call A, leaves the state,  *)
(* the start time, the window, the machine signal and the tags of every    *)
(* other call B as they are, calls no action for B and does not update B.  *)
(***************************************************************************)

\* what map m holds for callSid
Entry(m, callSid) == IF callSid \in DOMAIN m THEN <<m[callSid]>> ELSE <<>>

\* the session of callSid and the actions called for it
SessionOf(callSid, states, starts, trans, amds, actions, log, suspended, live) ==
    <<Entry(states, callSid), Entry(starts, callSid), Entry(trans, callSid),
      Entry(amds, callSid), Entry(actions, callSid),
      SelectSeq(log, LAMBDA e : e.callSid = callSid),
      {h \in suspended : h.callSid = callSid}, live[callSid]>>

\* the step handles a webhook of callSid or resumes one of its handlers
StepOf(callSid) ==
    \/ delivered' = delivered + 1 /\ lastEvent'.callSid = callSid
    \/ delivered' = delivered
         /\ \E h \in inFlight : h.callSid = callSid /\ h \notin inFlight'

C37_CallsAreIsolated ==
    [][\A a \in AllCallSids, b \in AllCallSids :
          (a # b /\ StepOf(a))
            => SessionOf(b, callStates', callStartTimes', callTranscripts',
                         amdResults', processedActions', invoked', inFlight',
                         liveCall')
                 = SessionOf(b, callStates, callStartTimes, callTranscripts,
                             amdResults, processedActions, invoked, inFlight,
                             liveCall)]_vars

\* both calls were monitored; the first has ended and its session is
\* deleted, the session of the second is still there
C37_Witness ==
    /\ lastEvent.kind = "lifecycle" /\ lastEvent.callSid = "CA1"
    /\ lastEvent.arg = "completed"
    /\ epoch["CA1"] = 1 /\ NoSession("CA1")
    /\ \E i \in DOMAIN invoked : invoked[i].callSid = "CA1"
    /\ getCallState(callStates, "CA2") = "IOS26_MONITORING"
    /\ detectIOS26Patterns(callTranscripts["CA2"])

(***************************************************************************)
(* C38: detectHumanSpeech never holds of a text together with one of the   *)
(* three other predicates: it is false of every text of which              *)
(* detectIOS26Patterns, detectVoicemailPatterns or                         *)
(* detectIntermediatePrompts is true.                                      *)
(***************************************************************************)

C38_HumanSpeechExcludesTheOthers ==
    (lastEvent.kind = "classify" /\ lastEvent.response = "human")
      => /\ ~detectIOS26Patterns(lastEvent.arg)
         /\ ~detectVoicemailPatterns(lastEvent.arg)
         /\ ~detectIntermediatePrompts(lastEvent.arg)

\* a text with a phrase of human speech that is an intermediate prompt as
\* well was not taken for human speech
C38_Witness ==
    /\ lastEvent.kind = "classify" /\ lastEvent.response = "other"
    /\ \E pattern \in humanPatterns : Includes(ToLowerCase(lastEvent.arg), pattern)
    /\ detectIntermediatePrompts(lastEvent.arg)
    /\ ~detectIOS26Patterns(lastEvent.arg)
    /\ ~detectVoicemailPatterns(lastEvent.arg)

(***************************************************************************)
(* C39: whenever no handler invocation is in progress for a call, the      *)
(* state of its session is terminal exactly when a tag is marked for it:   *)
(* PASSTHROUGH has a passthrough tag, VOICEMAIL_DELIVERED has a voicemail  *)
(* tag, and INITIAL and IOS26_MONITORING have no tag.                      *)
(***************************************************************************)

PassthroughTags == {"human_passthrough", "human_passthrough_fallback", "human_after_ios26"}
VoicemailTags == {"voicemail_direct", "voicemail_after_ios26"}

\* the tags marked for callSid
TagsOf(callSid) ==
    IF callSid \in DOMAIN processedActions THEN processedActions[callSid] ELSE {}

C39_TagsFollowTheState ==
    \A c \in CallSids :
        (\A h \in inFlight : h.callSid # c)
          => LET state == getCallState(callStates, c)
             IN  /\ state = "PASSTHROUGH" => TagsOf(c) \cap PassthroughTags # {}
                 /\ state = "VOICEMAIL_DELIVERED" => TagsOf(c) \cap VoicemailTags # {}
                 /\ state \in {"INITIAL", "IOS26_MONITORING"} => TagsOf(c) = {}

\* the call ended while its Passthrough was awaited: the session was
\* deleted, and the return of Passthrough has set the state and marked the
\* tag of a session that has nothing else
C39_Witness ==
    \E c \in CallSids :
        /\ inFlight = {}
        /\ epoch[c] = 1
        /\ getCallState(callStates, c) = "PASSTHROUGH"
        /\ TagsOf(c) \cap PassthroughTags # {}
        /\ c \notin DOMAIN callStartTimes

====
